---------------------------- MODULE Spec2Model ----------------------------
(***************************************************************************)
(* match-sorter (src/src/index.ts): ranking, filtering and sorting of a    *)
(* list of items against a query string.                                   *)
(*                                                                         *)
(* Strings are sequences of one-character atoms.  Ranks are rationals      *)
(* <<numerator, denominator>> (the closeness score is MATCHES + 1/spread); *)
(* Infinity is <<1, 0>> and -Infinity is <<-1, 0>>.  JavaScript values are *)
(* tagged records [t |-> typeof-like tag, v |-> payload].                  *)
(***************************************************************************)
EXTENDS Integers, Sequences, FiniteSets, TLC

(***************************************************************************)
(* Bounds of the model.                                                    *)
(***************************************************************************)
MaxItems == 2

\* the longest candidate string and the longest query ranked on their own
MaxLen == 4

MaxQueryLen == 2

(***************************************************************************)
(* Rational ranks.                                                         *)
(***************************************************************************)
Rat(n) == <<n, 1>>

Lt(a, b) == a[1] * b[2] < b[1] * a[2]

Eq(a, b) ==
  /\ a[1] * b[2] = b[1] * a[2]
  /\ (a[2] = 0 /\ b[2] = 0) => a[1] = b[1]

Gt(a, b) == Lt(b, a)

Ge(a, b) == ~Lt(a, b)

Le(a, b) == ~Lt(b, a)

Infinity == <<1, 0>>

NegInfinity == <<-1, 0>>

Undefined == <<>>

(***************************************************************************)
(* const rankings                                                          *)
(***************************************************************************)
CASE_SENSITIVE_EQUAL == 7

EQUAL == 6

STARTS_WITH == 5

WORD_STARTS_WITH == 4

CONTAINS == 3

ACRONYM == 2

MATCHES == 1

NO_MATCH == 0

(***************************************************************************)
(* String primitives of the JavaScript runtime, on sequences of characters.*)
(***************************************************************************)
LowerLetters ==
  <<"a", "b", "c", "d", "e", "f", "g", "h", "i", "j", "k", "l", "m",
    "n", "o", "p", "q", "r", "s", "t", "u", "v", "w", "x", "y", "z">>

UpperLetters ==
  <<"A", "B", "C", "D", "E", "F", "G", "H", "I", "J", "K", "L", "M",
    "N", "O", "P", "Q", "R", "S", "T", "U", "V", "W", "X", "Y", "Z">>

\* accented letters are written as the base letter followed by a quote
AccentedLetters == <<"e'", "E'">>

UnaccentedLetters == <<"e", "E">>

Digits == <<"0", "1", "2", "3", "4", "5", "6", "7", "8", "9">>

IndexIn(c, chars) ==
  IF \E i \in DOMAIN chars : chars[i] = c
    THEN CHOOSE i \in DOMAIN chars : chars[i] = c
    ELSE 0

LowerChar(c) ==
  IF IndexIn(c, UpperLetters) > 0 THEN LowerLetters[IndexIn(c, UpperLetters)]
  ELSE IF c = "E'" THEN "e'"
  ELSE c

toLowerCase(s) == [i \in DOMAIN s |-> LowerChar(s[i])]

removeAccents(s) ==
  [i \in DOMAIN s |->
     IF IndexIn(s[i], AccentedLetters) > 0
       THEN UnaccentedLetters[IndexIn(s[i], AccentedLetters)]
       ELSE s[i]]

startsWith(s, p) == Len(p) <= Len(s) /\ SubSeq(s, 1, Len(p)) = p

includes(s, p) ==
  \E i \in 0..(Len(s) - Len(p)) : SubSeq(s, i + 1, i + Len(p)) = p

\* s.substr(0, 1)
substr01(s) == IF Len(s) = 0 THEN <<>> ELSE <<s[1]>>

RECURSIVE split(_, _)
\* s.split(sep) for a one-character separator: the list of fragments
split(s, sep) ==
  IF \E i \in DOMAIN s : s[i] = sep
    THEN LET i == CHOOSE k \in DOMAIN s :
                    s[k] = sep /\ \A m \in 1..(k - 1) : s[m] # sep
         IN  <<SubSeq(s, 1, i - 1)>> \o split(SubSeq(s, i + 1, Len(s)), sep)
    ELSE <<s>>

RECURSIVE Concat(_)
Concat(ss) == IF ss = <<>> THEN <<>> ELSE Head(ss) \o Concat(Tail(ss))

RECURSIVE DecimalDigits(_)
DecimalDigits(n) ==
  IF n < 10 THEN <<Digits[n + 1]>>
  ELSE DecimalDigits(n \div 10) \o <<Digits[(n % 10) + 1]>>

(***************************************************************************)
(* JavaScript values.                                                      *)
(***************************************************************************)
Str(s) == [t |-> "string", v |-> s]

Num(n) == [t |-> "number", v |-> n]

Arr(a) == [t |-> "array", v |-> a]

Obj(f) == [t |-> "object", v |-> f]

Null == [t |-> "null", v |-> 0]

Undef == [t |-> "undefined", v |-> 0]

\* value == null
IsNullish(x) == x.t \in {"null", "undefined"}

RECURSIVE JsString(_)
RECURSIVE JoinComma(_)
\* Array.prototype.join(','): null and undefined elements print as ''
JoinComma(a) ==
  IF a = <<>> THEN <<>>
  ELSE LET h == IF IsNullish(Head(a)) THEN <<>> ELSE JsString(Head(a))
       IN  IF Len(a) = 1 THEN h ELSE h \o <<",">> \o JoinComma(Tail(a))

\* `${value}` and String(value)
JsString(x) ==
  CASE x.t = "string" -> x.v
    [] x.t = "number" ->
         IF x.v < 0 THEN <<"-">> \o DecimalDigits(-x.v) ELSE DecimalDigits(x.v)
    [] x.t = "array" -> JoinComma(x.v)
    [] x.t = "object" ->
         <<"[", "o", "b", "j", "e", "c", "t", " ", "O", "b", "j", "e", "c", "t", "]">>
    [] x.t = "null" -> <<"n", "u", "l", "l">>
    [] x.t = "undefined" -> <<"u", "n", "d", "e", "f", "i", "n", "e", "d">>

(***************************************************************************)
(* prepareValueForComparison                                               *)
(***************************************************************************)
prepareValueForComparison(value, options) ==
  IF options.keepDiacritics THEN JsString(value) ELSE removeAccents(JsString(value))

(***************************************************************************)
(* getAcronym                                                              *)
(***************************************************************************)
getAcronym(string) ==
  LET wordsInString == split(string, " ")
      ofWord(wordInString) ==
        LET splitByHyphenWords == split(wordInString, "-")
        IN  Concat([k \in DOMAIN splitByHyphenWords |->
                      substr01(splitByHyphenWords[k])])
  IN  Concat([k \in DOMAIN wordsInString |-> ofWord(wordsInString[k])])

(***************************************************************************)
(* getClosenessRanking                                                     *)
(***************************************************************************)
\* the cursor after the first occurrence of matchChar at or after the
\* (0-based) position index, or -1
\* findMatchingCharacter starting one character after the cursor
findMatchingCharacterAfter(matchChar, string, index) ==
  LET found == {j \in (index + 1)..(Len(string) - 1) : string[j + 1] = matchChar}
  IN  IF found = {} THEN -1
      ELSE (CHOOSE j \in found : \A k \in found : j <= k) + 1

findMatchingCharacter(matchChar, string, index) ==
  LET found == {j \in index..(Len(string) - 1) : j >= 0 /\ string[j + 1] = matchChar}
  IN  IF found = {} THEN -1
      ELSE (CHOOSE j \in found : \A k \in found : j <= k) + 1

\* getRanking without the division by stringToRank.length
getRankingCountUndivided(spread, matchingInOrderCharCount, stringToRank) ==
  <<MATCHES * spread + matchingInOrderCharCount, spread>>

\* MATCHES + (matchingInOrderCharCount / stringToRank.length) * (1 / spread)
getRanking(spread, matchingInOrderCharCount, stringToRank) ==
  <<MATCHES * (Len(stringToRank) * spread) + matchingInOrderCharCount,
    Len(stringToRank) * spread>>

RECURSIVE closenessLoopCountKept(_, _, _, _, _, _)
\* the loop of getClosenessRanking without matchingInOrderCharCount++
closenessLoopCountKept(testString, stringToRank, i, firstIndex, charNumber, count) ==
  IF i >= Len(stringToRank)
    THEN getRanking(charNumber - firstIndex, count, stringToRank)
    ELSE LET next == findMatchingCharacter(stringToRank[i + 1], testString, charNumber)
         IN  IF next > -1
               THEN closenessLoopCountKept(testString, stringToRank, i + 1,
                                           firstIndex, next, count)
               ELSE Rat(NO_MATCH)

RECURSIVE closenessLoop(_, _, _, _, _, _)
closenessLoop(testString, stringToRank, i, firstIndex, charNumber, count) ==
  IF i >= Len(stringToRank)
    THEN getRanking(charNumber - firstIndex, count, stringToRank)
    ELSE LET next == findMatchingCharacter(stringToRank[i + 1], testString, charNumber)
         IN  IF next > -1
               THEN closenessLoop(testString, stringToRank, i + 1, firstIndex,
                                  next, count + 1)
               ELSE Rat(NO_MATCH)

\* getClosenessRanking without the return on firstIndex < 0
getClosenessRankingFirstUnchecked(testString, stringToRank) ==
  LET firstIndex == IF Len(stringToRank) = 0 THEN -1
                    ELSE findMatchingCharacter(stringToRank[1], testString, 0)
  IN  closenessLoop(testString, stringToRank, 1, firstIndex, firstIndex, 1)

getClosenessRanking(testString, stringToRank) ==
  LET firstIndex == IF Len(stringToRank) = 0 THEN -1
                    ELSE findMatchingCharacter(stringToRank[1], testString, 0)
  IN  IF firstIndex < 0 THEN Rat(NO_MATCH)
      ELSE closenessLoop(testString, stringToRank, 1, firstIndex, firstIndex, 1)

(***************************************************************************)
(* getMatchRanking                                                         *)
(***************************************************************************)
\* getMatchRanking testing "contains" before "word starts with"
getMatchRankingContainsFirst(testValue, queryValue, options) ==
  LET testString == prepareValueForComparison(testValue, options)
      stringToRank == prepareValueForComparison(queryValue, options)
      lowTest == toLowerCase(testString)
      lowRank == toLowerCase(stringToRank)
  IN  IF Len(stringToRank) > Len(testString) THEN Rat(NO_MATCH)
      ELSE IF testString = stringToRank THEN Rat(CASE_SENSITIVE_EQUAL)
      ELSE IF lowTest = lowRank THEN Rat(EQUAL)
      ELSE IF startsWith(lowTest, lowRank) THEN Rat(STARTS_WITH)
      ELSE IF includes(lowTest, lowRank) THEN Rat(CONTAINS)
      ELSE IF includes(lowTest, <<" ">> \o lowRank) THEN Rat(WORD_STARTS_WITH)
      ELSE IF Len(lowRank) = 1 THEN Rat(NO_MATCH)
      ELSE IF includes(getAcronym(lowTest), lowRank) THEN Rat(ACRONYM)
      ELSE getClosenessRanking(lowTest, lowRank)

getMatchRanking(testValue, queryValue, options) ==
  LET testString == prepareValueForComparison(testValue, options)
      stringToRank == prepareValueForComparison(queryValue, options)
      lowTest == toLowerCase(testString)
      lowRank == toLowerCase(stringToRank)
  IN  IF Len(stringToRank) > Len(testString) THEN Rat(NO_MATCH)
      ELSE IF testString = stringToRank THEN Rat(CASE_SENSITIVE_EQUAL)
      ELSE IF lowTest = lowRank THEN Rat(EQUAL)
      ELSE IF startsWith(lowTest, lowRank) THEN Rat(STARTS_WITH)
      ELSE IF includes(lowTest, <<" ">> \o lowRank) THEN Rat(WORD_STARTS_WITH)
      ELSE IF includes(lowTest, lowRank) THEN Rat(CONTAINS)
      ELSE IF Len(lowRank) = 1 THEN Rat(NO_MATCH)
      ELSE IF includes(getAcronym(lowTest), lowRank) THEN Rat(ACRONYM)
      ELSE getClosenessRanking(lowTest, lowRank)

(***************************************************************************)
(* The case-aware version, src/src/index.js: its rankings, the case of a   *)
(* candidate and its getMatchRanking.  Definitions that differ from those  *)
(* of index.ts carry the suffix Js.                                        *)
(***************************************************************************)
rankingsJs ==
  [CASE_SENSITIVE_EQUAL |-> 9, EQUAL |-> 8, STARTS_WITH |-> 7,
   WORD_STARTS_WITH |-> 6, STRING_CASE |-> 5, STRING_CASE_ACRONYM |-> 4,
   CONTAINS |-> 3, ACRONYM |-> 2, MATCHES |-> 1, NO_MATCH |-> 0]

\* 0.8, 0.6, 0.4, 0.2 and 0
caseRankings ==
  [CAMEL |-> <<8, 10>>, PASCAL |-> <<6, 10>>, KEBAB |-> <<4, 10>>,
   SNAKE |-> <<2, 10>>, NO_CASE |-> <<0, 10>>]

\* rankings.X + caseRank
Plus(n, caseRank) == <<n * caseRank[2] + caseRank[1], caseRank[2]>>

UpperChar(c) ==
  IF IndexIn(c, LowerLetters) > 0 THEN UpperLetters[IndexIn(c, LowerLetters)]
  ELSE IF c = "e'" THEN "E'"
  ELSE c

\* s.indexOf(p)
indexOf(s, p) ==
  LET found == {i \in 0..(Len(s) - Len(p)) : SubSeq(s, i + 1, i + Len(p)) = p}
  IN  IF found = {} THEN -1 ELSE CHOOSE i \in found : \A k \in found : i <= k

\* s[i] === c for a 0-based index i, undefined outside the string
charAtIs(s, i, c) == i >= 0 /\ i < Len(s) /\ s[i + 1] = c

getCaseRanking(testString) ==
  LET containsUpperCase == toLowerCase(testString) # testString
      containsDash == indexOf(testString, <<"-">>) >= 0
      containsUnderscore == indexOf(testString, <<"_">>) >= 0
  IN  IF ~containsUpperCase /\ ~containsUnderscore /\ containsDash
        THEN caseRankings.KEBAB
      ELSE IF ~containsUpperCase /\ containsUnderscore /\ ~containsDash
        THEN caseRankings.SNAKE
      ELSE IF containsUpperCase /\ ~containsDash /\ ~containsUnderscore
        THEN IF UpperChar(testString[1]) = testString[1]
               THEN caseRankings.PASCAL
               ELSE caseRankings.CAMEL
      ELSE caseRankings.NO_CASE

isPartialOfCase(testString, stringToRank, caseRanking) ==
  LET testIndex == indexOf(toLowerCase(testString), toLowerCase(stringToRank))
  IN  CASE caseRanking = caseRankings.SNAKE -> charAtIs(testString, testIndex - 1, "_")
        [] caseRanking = caseRankings.KEBAB -> charAtIs(testString, testIndex - 1, "-")
        [] caseRanking \in {caseRankings.PASCAL, caseRankings.CAMEL} ->
             /\ testIndex # -1
             /\ testIndex < Len(testString)
             /\ testString[testIndex + 1] = UpperChar(testString[testIndex + 1])
        [] OTHER -> FALSE

RECURSIVE splitBeforeUpperCase(_, _)
\* string.split(/(?=[A-Z])/): the pieces that start at the upper-case
\* letters after the first character; from is the start of the current piece
splitBeforeUpperCase(string, from) ==
  LET cuts == {i \in (from + 1)..Len(string) : IndexIn(string[i], UpperLetters) > 0}
  IN  IF cuts = {} THEN <<SubSeq(string, from, Len(string))>>
      ELSE LET cut == CHOOSE i \in cuts : \A k \in cuts : i <= k
           IN  <<SubSeq(string, from, cut - 1)>> \o splitBeforeUpperCase(string, cut)

\* testString.split(splitValue); without a case the separator is the text
\* 'null', which no modelled string contains
splitByCase(testString, caseRank) ==
  CASE caseRank = caseRankings.SNAKE -> split(testString, "_")
    [] caseRank = caseRankings.KEBAB -> split(testString, "-")
    [] caseRank \in {caseRankings.PASCAL, caseRankings.CAMEL} ->
         IF testString = <<>> THEN <<>> ELSE splitBeforeUpperCase(testString, 1)
    [] OTHER -> <<testString>>

isCaseAcronym(testString, stringToRank, caseRank) ==
  LET splitTestString == splitByCase(testString, caseRank)
      chars == toLowerCase(stringToRank)
  IN  \A charIndex \in DOMAIN chars :
        /\ charIndex <= Len(splitTestString)
        /\ splitTestString[charIndex] # <<>>
        /\ LowerChar(splitTestString[charIndex][1]) = chars[charIndex]

\* rankings.MATCHES + 1 / (spread - stringToRank.length + 1)
getRankingJs(spread, stringToRank) ==
  LET matching == spread - Len(stringToRank) + 1
  IN  <<rankingsJs.MATCHES * matching + 1, matching>>

RECURSIVE closenessLoopJs(_, _, _, _, _)
closenessLoopJs(testString, stringToRank, i, firstIndex, charNumber) ==
  IF i >= Len(stringToRank)
    THEN getRankingJs(charNumber - firstIndex, stringToRank)
    ELSE LET next == findMatchingCharacter(stringToRank[i + 1], testString, charNumber)
         IN  IF next > -1
               THEN closenessLoopJs(testString, stringToRank, i + 1, firstIndex, next)
               ELSE Rat(rankingsJs.NO_MATCH)

getClosenessRankingJs(testString, stringToRank) ==
  LET firstIndex == IF Len(stringToRank) = 0 THEN -1
                    ELSE findMatchingCharacter(stringToRank[1], testString, 0)
  IN  IF firstIndex < 0 THEN Rat(rankingsJs.NO_MATCH)
      ELSE closenessLoopJs(testString, stringToRank, 1, firstIndex, firstIndex)

\* getMatchRanking of index.js: the return statement taken and its value
matchRankingStepJs(testValue, queryValue, options) ==
  LET testString == prepareValueForComparison(testValue, options)
      stringToRank == prepareValueForComparison(queryValue, options)
      caseRank == getCaseRanking(testString)
      isPartial == isPartialOfCase(testString, stringToRank, caseRank)
      isCasedAcronym == isCaseAcronym(testString, stringToRank, caseRank)
      lowTest == toLowerCase(testString)
      lowRank == toLowerCase(stringToRank)
  IN  IF Len(stringToRank) > Len(testString)
        THEN [step |-> "too long", rank |-> Rat(rankingsJs.NO_MATCH)]
      ELSE IF testString = stringToRank
        THEN [step |-> "case sensitive equals",
              rank |-> Rat(rankingsJs.CASE_SENSITIVE_EQUAL)]
      ELSE IF lowTest = lowRank
        THEN [step |-> "equals", rank |-> Plus(rankingsJs.EQUAL, caseRank)]
      ELSE IF indexOf(lowTest, lowRank) = 0
        THEN [step |-> "starts with", rank |-> Plus(rankingsJs.STARTS_WITH, caseRank)]
      ELSE IF indexOf(lowTest, <<" ">> \o lowRank) # -1
        THEN [step |-> "word starts with",
              rank |-> Plus(rankingsJs.WORD_STARTS_WITH, caseRank)]
      ELSE IF isPartial
        THEN [step |-> "string case", rank |-> Plus(rankingsJs.STRING_CASE, caseRank)]
      ELSE IF Gt(caseRank, Rat(0)) /\ isCasedAcronym
        THEN [step |-> "string case acronym",
              rank |-> Plus(rankingsJs.STRING_CASE_ACRONYM, caseRank)]
      ELSE IF indexOf(lowTest, lowRank) # -1
        THEN [step |-> "contains", rank |-> Plus(rankingsJs.CONTAINS, caseRank)]
      ELSE IF Len(lowRank) = 1
        THEN [step |-> "one character", rank |-> Rat(rankingsJs.NO_MATCH)]
      ELSE IF indexOf(getAcronym(lowTest), lowRank) # -1
        THEN [step |-> "acronym", rank |-> Plus(rankingsJs.ACRONYM, caseRank)]
      ELSE [step |-> "closeness", rank |-> getClosenessRankingJs(lowTest, lowRank)]

getMatchRankingJs(testValue, queryValue, options) ==
  matchRankingStepJs(testValue, queryValue, options).rank

(***************************************************************************)
(* Property access of the JavaScript runtime.                              *)
(***************************************************************************)
RECURSIVE DigitsValue(_)
DigitsValue(s) ==
  IF s = <<>> THEN 0
  ELSE 10 * DigitsValue(SubSeq(s, 1, Len(s) - 1)) + (IndexIn(s[Len(s)], Digits) - 1)

\* the array index a property name denotes, or -1
ArrayIndex(name) ==
  IF /\ Len(name) > 0
     /\ \A i \in DOMAIN name : IndexIn(name[i], Digits) > 0
     /\ (Len(name) = 1 \/ name[1] # "0")
    THEN DigitsValue(name)
    ELSE -1

LengthName == <<"l", "e", "n", "g", "t", "h">>

\* Object.hasOwnProperty.call(value, nestedKey), value not null or undefined
hasOwnProperty(value, nestedKey) ==
  CASE value.t = "object" -> nestedKey \in DOMAIN value.v
    [] value.t \in {"array", "string"} ->
         \/ nestedKey = LengthName
         \/ (ArrayIndex(nestedKey) >= 0 /\ ArrayIndex(nestedKey) < Len(value.v))
    [] OTHER -> FALSE

\* value[nestedKey] for an own property
getProperty(value, nestedKey) ==
  CASE value.t = "object" -> value.v[nestedKey]
    [] value.t = "array" ->
         IF nestedKey = LengthName THEN Num(Len(value.v))
         ELSE value.v[ArrayIndex(nestedKey) + 1]
    [] value.t = "string" ->
         IF nestedKey = LengthName THEN Num(Len(value.v))
         ELSE Str(<<value.v[ArrayIndex(nestedKey) + 1]>>)

(***************************************************************************)
(* getNestedValue                                                          *)
(***************************************************************************)
\* the inner reduce over the elements of an array value
RECURSIVE nestedArrayValues(_, _)
nestedArrayValues(arrayValues, nestedKey) ==
  IF arrayValues = <<>> THEN <<>>
  ELSE LET arrayValue == Head(arrayValues)
           rest == nestedArrayValues(Tail(arrayValues), nestedKey)
       IN  IF ~IsNullish(arrayValue) /\ hasOwnProperty(arrayValue, nestedKey)
             THEN IF ~IsNullish(getProperty(arrayValue, nestedKey))
                    THEN <<getProperty(arrayValue, nestedKey)>> \o rest
                    ELSE rest
             ELSE rest

\* nestedStep without the branch that ignores explicit wildcards
nestedStepWildcardRead(value, nestedKey) ==
  IF IsNullish(value) THEN Null
  ELSE IF hasOwnProperty(value, nestedKey)
    THEN IF ~IsNullish(getProperty(value, nestedKey))
           THEN getProperty(value, nestedKey)
           ELSE Null
  ELSE IF value.t = "array"
    THEN Arr(nestedArrayValues(value.v, nestedKey))
  ELSE Null

\* one step of the reduce over the path segments
nestedStep(value, nestedKey) ==
  IF IsNullish(value) THEN Null
  ELSE IF hasOwnProperty(value, nestedKey)
    THEN IF ~IsNullish(getProperty(value, nestedKey))
           THEN getProperty(value, nestedKey)
           ELSE Null
  ELSE IF value.t = "array"
    THEN IF nestedKey = <<"*">> THEN value
         ELSE Arr(nestedArrayValues(value.v, nestedKey))
  ELSE Null

RECURSIVE reduceSegments(_, _)
reduceSegments(segments, value) ==
  IF segments = <<>> THEN value
  ELSE reduceSegments(Tail(segments), nestedStep(value, Head(segments)))

getNestedValue(key, obj) == reduceSegments(split(key, "."), obj)

(***************************************************************************)
(* Key options.  A key is a path string, a callback or a descriptor; the   *)
(* other shapes are what an untyped caller may pass.                       *)
(***************************************************************************)
PathKey(path) == [type |-> "string", path |-> path]

\* the callback item => item[field]
FnKey(field) == [type |-> "function", field |-> field]

NumberKey == [type |-> "number"]

NullKey == [type |-> "null"]

UndefinedKey == [type |-> "undefined"]

Descriptor(key, threshold, minRanking, maxRanking) ==
  [type |-> "object", key |-> key, threshold |-> threshold,
   minRanking |-> minRanking, maxRanking |-> maxRanking]

Returned(x) == [threw |-> FALSE, value |-> x]

TypeError == [threw |-> TRUE, value |-> <<>>]

\* key(item) for the callback item => item[field]
callKey(key, item) ==
  IF IsNullish(item) THEN TypeError
  ELSE IF hasOwnProperty(item, key.field)
    THEN Returned(getProperty(item, key.field))
    ELSE Returned(Undef)

(***************************************************************************)
(* getItemValues                                                           *)
(***************************************************************************)
\* getItemValues testing !value in place of value == null
getItemValuesDropFalsy(item, keyOption) ==
  IF keyOption.type = "null" THEN TypeError
  ELSE LET key == IF keyOption.type = "object" THEN keyOption.key ELSE keyOption
           value == IF key.type = "function" THEN callKey(key, item)
                    ELSE IF key.type = "string"
                      THEN Returned(getNestedValue(key.path, item))
                    ELSE TypeError
       IN  IF value.threw THEN TypeError
           ELSE IF \/ IsNullish(value.value)
                   \/ value.value = Num(0)
                   \/ value.value = Str(<<>>)
             THEN Returned(<<>>)
           ELSE IF value.value.t = "array" THEN Returned(value.value.v)
           ELSE Returned(<<value.value>>)

getItemValues(item, keyOption) ==
  IF keyOption.type = "null" THEN TypeError
  ELSE LET key == IF keyOption.type = "object" THEN keyOption.key ELSE keyOption
           value == IF key.type = "function" THEN callKey(key, item)
                    ELSE IF key.type = "string"
                      THEN Returned(getNestedValue(key.path, item))
                    ELSE TypeError
       IN  IF value.threw THEN TypeError
           ELSE IF IsNullish(value.value) THEN Returned(<<>>)
           ELSE IF value.value.t = "array" THEN Returned(value.value.v)
           ELSE Returned(<<value.value>>)

(***************************************************************************)
(* defaultKeyAttributes, getKeyAttributes                                  *)
(***************************************************************************)
defaultKeyAttributes ==
  [maxRanking |-> Infinity, minRanking |-> NegInfinity, threshold |-> Undefined]

getKeyAttributes(key) ==
  IF key.type = "object"
    THEN [maxRanking |-> IF key.maxRanking = Undefined
                           THEN defaultKeyAttributes.maxRanking
                           ELSE key.maxRanking,
          minRanking |-> IF key.minRanking = Undefined
                           THEN defaultKeyAttributes.minRanking
                           ELSE key.minRanking,
          threshold |-> key.threshold]
    ELSE defaultKeyAttributes

(***************************************************************************)
(* getAllValuesToRank                                                      *)
(***************************************************************************)
RECURSIVE getAllValuesToRank(_, _)
getAllValuesToRank(item, keys) ==
  IF keys = <<>> THEN Returned(<<>>)
  ELSE LET key == Head(keys)
           values == getItemValues(item, key)
           rest == getAllValuesToRank(item, Tail(keys))
       IN  IF values.threw \/ rest.threw THEN TypeError
           ELSE Returned([k \in DOMAIN values.value |->
                            [itemValue |-> values.value[k],
                             attributes |-> getKeyAttributes(key)]]
                         \o rest.value)

(***************************************************************************)
(* getHighestRanking                                                       *)
(***************************************************************************)
\* clampRank without the promotion to minRanking
clampRankNoMin(newRank, attributes) ==
  IF Gt(newRank, attributes.maxRanking) THEN attributes.maxRanking ELSE newRank

\* clampRank without the cap at maxRanking
clampRankNoMax(newRank, attributes) ==
  IF Lt(newRank, attributes.minRanking) /\ Ge(newRank, Rat(MATCHES))
    THEN attributes.minRanking
    ELSE newRank

\* clampRank promoting candidates that did not match as well
clampRankPromoteNoMatch(newRank, attributes) ==
  IF Lt(newRank, attributes.minRanking)
    THEN attributes.minRanking
  ELSE IF Gt(newRank, attributes.maxRanking)
    THEN attributes.maxRanking
  ELSE newRank

\* the minRanking / maxRanking clamp of one candidate's rank
clampRank(newRank, attributes) ==
  IF Lt(newRank, attributes.minRanking) /\ Ge(newRank, Rat(MATCHES))
    THEN attributes.minRanking
  ELSE IF Gt(newRank, attributes.maxRanking)
    THEN attributes.maxRanking
  ELSE newRank

\* the reducer replacing the running best on an equal rank as well
highestRankingStepOnEqual(acc, candidate, i, value, options) ==
  LET newRank == clampRank(getMatchRanking(candidate.itemValue, value, options),
                           candidate.attributes)
  IN  IF Ge(newRank, acc.rank)
        THEN [rankedValue |-> candidate.itemValue,
              rank |-> newRank,
              keyIndex |-> i,
              keyThreshold |-> candidate.attributes.threshold]
        ELSE acc

\* the reducer: acc is the running best, i the position in valuesToRank
highestRankingStep(acc, candidate, i, value, options) ==
  LET newRank == clampRank(getMatchRanking(candidate.itemValue, value, options),
                           candidate.attributes)
  IN  IF Gt(newRank, acc.rank)
        THEN [rankedValue |-> candidate.itemValue,
              rank |-> newRank,
              keyIndex |-> i,
              keyThreshold |-> candidate.attributes.threshold]
        ELSE acc

RECURSIVE highestRankingReduce(_, _, _, _, _)
highestRankingReduce(acc, valuesToRank, i, value, options) ==
  IF i >= Len(valuesToRank) THEN acc
  ELSE highestRankingReduce(
         highestRankingStep(acc, valuesToRank[i + 1], i, value, options),
         valuesToRank, i + 1, value, options)

\* initialRanking with the default threshold in place of options.threshold
initialRankingDefaultThreshold(item, options) ==
  [rankedValue |-> item,
   rank |-> Rat(NO_MATCH),
   keyIndex |-> -1,
   keyThreshold |-> Rat(MATCHES)]

\* initialRanking starting below the scale
initialRankingNegInfinity(item, options) ==
  [rankedValue |-> item,
   rank |-> NegInfinity,
   keyIndex |-> -1,
   keyThreshold |-> options.threshold]

\* the initial value of the reduce
initialRanking(item, options) ==
  [rankedValue |-> item,
   rank |-> Rat(NO_MATCH),
   keyIndex |-> -1,
   keyThreshold |-> options.threshold]

\* the raw and the clamped rank the reducer computes for each candidate
candidateRanks(valuesToRank, value, options) ==
  [i \in DOMAIN valuesToRank |->
     LET rawRank == getMatchRanking(valuesToRank[i].itemValue, value, options)
     IN  [itemValue |-> valuesToRank[i].itemValue,
          attributes |-> valuesToRank[i].attributes,
          rawRank |-> rawRank,
          newRank |-> clampRank(rawRank, valuesToRank[i].attributes)]]

getHighestRanking(item, value, options) ==
  IF ~options.keysGiven
    THEN Returned([rankedValue |-> item,
                   rank |-> getMatchRanking(item, value, options),
                   keyIndex |-> -1,
                   keyThreshold |-> options.threshold])
    ELSE LET valuesToRank == getAllValuesToRank(item, options.keys)
         IN  IF valuesToRank.threw THEN TypeError
             ELSE Returned(highestRankingReduce(initialRanking(item, options),
                                                valuesToRank.value, 0, value, options))

(***************************************************************************)
(* defaultBaseSortFn: String(a.rankedValue).localeCompare(...).  The       *)
(* collation compares base letters first, then accents, then case.         *)
(***************************************************************************)
CollationOrder ==
  <<" ", "_", "-", ",", "'", "[", "]", "*", ".">> \o Digits \o LowerLetters

PrimaryWeight(c) == IndexIn(LowerChar(removeAccents(<<c>>)[1]), CollationOrder)

SecondaryWeight(c) == IF IndexIn(c, AccentedLetters) > 0 THEN 1 ELSE 0

TertiaryWeight(c) ==
  IF IndexIn(removeAccents(<<c>>)[1], UpperLetters) > 0 THEN 1 ELSE 0

RECURSIVE CompareWeights(_, _)
CompareWeights(a, b) ==
  IF a = <<>> /\ b = <<>> THEN 0
  ELSE IF a = <<>> THEN -1
  ELSE IF b = <<>> THEN 1
  ELSE IF Head(a) < Head(b) THEN -1
  ELSE IF Head(a) > Head(b) THEN 1
  ELSE CompareWeights(Tail(a), Tail(b))

localeCompare(a, b) ==
  LET primary == CompareWeights([i \in DOMAIN a |-> PrimaryWeight(a[i])],
                                [i \in DOMAIN b |-> PrimaryWeight(b[i])])
      secondary == CompareWeights([i \in DOMAIN a |-> SecondaryWeight(a[i])],
                                  [i \in DOMAIN b |-> SecondaryWeight(b[i])])
      tertiary == CompareWeights([i \in DOMAIN a |-> TertiaryWeight(a[i])],
                                 [i \in DOMAIN b |-> TertiaryWeight(b[i])])
  IN  IF primary # 0 THEN primary
      ELSE IF secondary # 0 THEN secondary
      ELSE tertiary

defaultBaseSortFn(a, b) ==
  localeCompare(JsString(a.rankedValue), JsString(b.rankedValue))

\* options.baseSort: the default, or the caller's comparator by input index
baseSort(a, b, options) ==
  CASE options.baseSort = "default" -> defaultBaseSortFn(a, b)
    [] options.baseSort = "byIndex" -> IF a.index < b.index THEN -1 ELSE 1

(***************************************************************************)
(* sortRankedValues                                                        *)
(***************************************************************************)
\* sortRankedValues with the rank comparison reversed
sortRankedValuesRankAscending(a, b, options) ==
  LET aFirst == -1
      bFirst == 1
      same == Eq(a.rank, b.rank)
  IN  IF same
        THEN IF a.keyIndex = b.keyIndex
               THEN baseSort(a, b, options)
               ELSE IF a.keyIndex < b.keyIndex THEN aFirst ELSE bFirst
        ELSE IF Lt(a.rank, b.rank) THEN aFirst ELSE bFirst

sortRankedValues(a, b, options) ==
  LET aFirst == -1
      bFirst == 1
      same == Eq(a.rank, b.rank)
  IN  IF same
        THEN IF a.keyIndex = b.keyIndex
               THEN baseSort(a, b, options)
               ELSE IF a.keyIndex < b.keyIndex THEN aFirst ELSE bFirst
        ELSE IF Gt(a.rank, b.rank) THEN aFirst ELSE bFirst

(***************************************************************************)
(* Array.prototype.sort with a comparator: a stable sort.                  *)
(***************************************************************************)
\* a sort that places an element before the elements it compares equal to
sortInsertBeforeEqual(sorted, x, options) ==
  LET notAfter == {k \in DOMAIN sorted : sortRankedValues(sorted[k], x, options) < 0}
      at == IF notAfter = {} THEN 0
            ELSE CHOOSE k \in notAfter : \A m \in notAfter : m <= k
  IN  SubSeq(sorted, 1, at) \o <<x>> \o SubSeq(sorted, at + 1, Len(sorted))

sortInsert(sorted, x, options) ==
  LET notAfter == {k \in DOMAIN sorted : sortRankedValues(sorted[k], x, options) <= 0}
      at == IF notAfter = {} THEN 0
            ELSE CHOOSE k \in notAfter : \A m \in notAfter : m <= k
  IN  SubSeq(sorted, 1, at) \o <<x>> \o SubSeq(sorted, at + 1, Len(sorted))

RECURSIVE sortFrom(_, _, _)
sortFrom(sorted, rest, options) ==
  IF rest = <<>> THEN sorted
  ELSE sortFrom(sortInsert(sorted, Head(rest), options), Tail(rest), options)

sort(array, options) == sortFrom(<<>>, array, options)

(***************************************************************************)
(* matchSorter                                                             *)
(***************************************************************************)
\* threshold defaulting to NO_MATCH
thresholdDefaultNoMatch(options) ==
  IF options.threshold = Undefined THEN Rat(NO_MATCH) ELSE options.threshold

\* const {threshold = rankings.MATCHES} = options
threshold(options) ==
  IF options.threshold = Undefined THEN Rat(MATCHES) ELSE options.threshold

\* meetsThreshold ignoring the threshold of the winning key
meetsThresholdGlobalOnly(rankingInfo, options) ==
  Ge(rankingInfo.rank, threshold(options))

\* meetsThreshold with the comparison reversed
meetsThresholdReversed(rankingInfo, options) ==
  LET keyThreshold == IF rankingInfo.keyThreshold = Undefined
                        THEN threshold(options)
                        ELSE rankingInfo.keyThreshold
  IN  Le(rankingInfo.rank, keyThreshold)

\* meetsThreshold with a strict comparison
meetsThresholdStrict(rankingInfo, options) ==
  LET keyThreshold == IF rankingInfo.keyThreshold = Undefined
                        THEN threshold(options)
                        ELSE rankingInfo.keyThreshold
  IN  Gt(rankingInfo.rank, keyThreshold)

\* const {rank, keyThreshold = threshold} = rankingInfo; rank >= keyThreshold
meetsThreshold(rankingInfo, options) ==
  LET keyThreshold == IF rankingInfo.keyThreshold = Undefined
                        THEN threshold(options)
                        ELSE rankingInfo.keyThreshold
  IN  Ge(rankingInfo.rank, keyThreshold)

\* rankedItem keeping the ranked value in place of the item
rankedItemRankedValue(rankingInfo, item, index) ==
  [rankedValue |-> rankingInfo.rankedValue,
   rank |-> rankingInfo.rank,
   keyIndex |-> rankingInfo.keyIndex,
   keyThreshold |-> rankingInfo.keyThreshold,
   item |-> rankingInfo.rankedValue,
   index |-> index]

\* {...rankingInfo, item, index}
rankedItem(rankingInfo, item, index) ==
  [rankedValue |-> rankingInfo.rankedValue,
   rank |-> rankingInfo.rank,
   keyIndex |-> rankingInfo.keyIndex,
   keyThreshold |-> rankingInfo.keyThreshold,
   item |-> item,
   index |-> index]

(***************************************************************************)
(* Inputs of a call matchSorter(items, value, options).                    *)
(***************************************************************************)
\* field names and paths
tea == <<"t">>

alias == <<"a">>

Object1(k, x) == Obj(k :> x)

Object2(k1, x1, k2, x2) == Obj((k1 :> x1) @@ (k2 :> x2))

\* items ranked as strings (no keys)
StringItems ==
  { Str(<<"a", "b">>),            \* case-sensitive equal to 'ab'
    Str(<<"A", "b">>),            \* equal
    Str(<<"a", "b", "c">>),       \* starts with
    Str(<<"c", " ", "a", "b">>),  \* word starts with
    Str(<<"c", "a", "b">>),       \* contains
    Str(<<"a", "-", "b">>),       \* acronym
    Str(<<"a", "c", "b">>),       \* loose match
    Str(<<"c">>),                 \* no match
    Str(<<>>) }

\* items read through keys
ObjectItems ==
  { Object1(tea, Str(<<"a", "b">>)),
    Object1(alias, Arr(<<Str(<<"c">>), Str(<<"a", "b">>)>>)),
    Object2(tea, Str(<<"a", "b", "c">>), alias, Str(<<"a", "b">>)),
    Object2(tea, Str(<<"c">>), alias, Str(<<"c", "a", "b">>)),
    Obj(<<>>),
    Null,
    Object2(tea, Null, alias, Str(<<"A", "b">>)),
    Object2(tea, Str(<<"a", "c", "b">>), alias, Str(<<"a", "-", "b">>)),
    Object1(alias, Str(<<"c">>)) }

Queries == { <<"a", "b">>, <<>>, <<"a", "b", "c", "d", "e">> }

Thresholds == { Undefined, Rat(NO_MATCH), Rat(STARTS_WITH) }

BaseSorts == { "default", "byIndex" }

KeyLists ==
  { <<PathKey(alias), PathKey(tea)>>,
    <<PathKey(tea), Descriptor(PathKey(alias), Undefined, Rat(EQUAL), Undefined)>>,
    <<Descriptor(PathKey(tea), Rat(STARTS_WITH), Undefined, Undefined),
      Descriptor(PathKey(alias), Undefined, Undefined, Rat(STARTS_WITH))>>,
    <<PathKey(tea), Descriptor(PathKey(alias), Rat(CONTAINS), Undefined, Undefined)>>,
    <<Descriptor(PathKey(alias), Undefined, Rat(EQUAL), Rat(CONTAINS)), PathKey(tea)>>,
    <<Descriptor(PathKey(alias), Undefined, Rat(CASE_SENSITIVE_EQUAL + 1), Undefined)>>,
    <<FnKey(tea), PathKey(alias)>>,
    <<NumberKey>>,
    <<PathKey(tea), NullKey>>,
    <<Descriptor(UndefinedKey, Undefined, Rat(EQUAL), Undefined)>> }

\* the threshold and baseSort options of a call
ThresholdAndSort ==
  {<<t, "default">> : t \in Thresholds} \cup {<<Undefined, b>> : b \in BaseSorts}

RECURSIVE SeqsUpTo(_, _)
\* the sequences of at most n elements of S
SeqsUpTo(S, n) ==
  IF n = 0 THEN {<<>>}
  ELSE LET shorter == SeqsUpTo(S, n - 1)
       IN  shorter \cup {Append(q, x) : q \in {r \in shorter : Len(r) = n - 1}, x \in S}

Options(keysGiven, keys, t, b) ==
  [keysGiven |-> keysGiven, keys |-> keys, threshold |-> t, baseSort |-> b,
   keepDiacritics |-> FALSE]

VARIABLES
  items,         \* the items argument
  value,         \* the query
  options,       \* the options argument
  pc,            \* "reduce", "done" or "threw"
  index,         \* the reduce index: the number of items processed
  matches,       \* matchedItems
  rankingInfos,  \* the rankingInfo computed for each processed item
  rankedValues,  \* the candidates of each processed item with their ranks
  result         \* the returned list

vars ==
  <<items, value, options, pc, index, matches, rankingInfos, rankedValues, result>>

Init ==
  /\ \/ /\ items \in SeqsUpTo(StringItems, MaxItems)
        /\ \E tb \in ThresholdAndSort :
             options = Options(FALSE, <<>>, tb[1], tb[2])
     \/ /\ items \in SeqsUpTo(ObjectItems, MaxItems)
        /\ \E keys \in KeyLists, tb \in ThresholdAndSort :
             options = Options(TRUE, keys, tb[1], tb[2])
  /\ value \in {Str(q) : q \in Queries}
  /\ pc = "reduce"
  /\ index = 0
  /\ matches = <<>>
  /\ rankingInfos = <<>>
  /\ rankedValues = <<>>
  /\ result = <<>>

\* the candidates getHighestRanking ranks for the item
rankedValuesOf(item) ==
  IF options.keysGiven
    THEN candidateRanks(getAllValuesToRank(item, options.keys).value, value, options)
    ELSE <<>>

\* reduceItemsToRanked on an item that meets its threshold
ReduceKeep ==
  /\ pc = "reduce"
  /\ index < Len(items)
  /\ LET info == getHighestRanking(items[index + 1], value, options)
     IN  /\ ~info.threw
         /\ meetsThreshold(info.value, options)
         /\ rankingInfos' = Append(rankingInfos, info.value)
         /\ matches' = Append(matches, rankedItem(info.value, items[index + 1], index))
  /\ rankedValues' = Append(rankedValues, rankedValuesOf(items[index + 1]))
  /\ index' = index + 1
  /\ UNCHANGED <<items, value, options, pc, result>>

\* reduceItemsToRanked on an item below its threshold
ReduceDrop ==
  /\ pc = "reduce"
  /\ index < Len(items)
  /\ LET info == getHighestRanking(items[index + 1], value, options)
     IN  /\ ~info.threw
         /\ ~meetsThreshold(info.value, options)
         /\ rankingInfos' = Append(rankingInfos, info.value)
  /\ rankedValues' = Append(rankedValues, rankedValuesOf(items[index + 1]))
  /\ index' = index + 1
  /\ UNCHANGED <<items, value, options, pc, matches, result>>

\* a TypeError raised while the item's values are read ends the call
ReduceThrow ==
  /\ pc = "reduce"
  /\ index < Len(items)
  /\ getHighestRanking(items[index + 1], value, options).threw
  /\ pc' = "threw"
  /\ UNCHANGED <<items, value, options, index, matches, rankingInfos,
                 rankedValues, result>>

\* return matchedItems.sort(...).map(({item}) => item)
Return ==
  /\ pc = "reduce"
  /\ index = Len(items)
  /\ matches' = sort(matches, options)
  /\ result' = [k \in DOMAIN matches |-> matches'[k].item]
  /\ pc' = "done"
  /\ UNCHANGED <<items, value, options, index, rankingInfos, rankedValues>>

Next == ReduceKeep \/ ReduceDrop \/ ReduceThrow \/ Return

Spec == Init /\ [][Next]_vars

(***************************************************************************)
(* getMatchRanking on its own: one candidate string ranked against one     *)
(* query, as getHighestRanking does for an item when no keys are given.    *)
(***************************************************************************)
CandidateChars == {"a", "b", "A", " ", "-"}

QueryChars == {"a", "b", "A"}

InitRank ==
  /\ \E s \in SeqsUpTo(CandidateChars, MaxLen) : items = <<Str(s)>>
  /\ \E q \in SeqsUpTo(QueryChars, MaxQueryLen) : value = Str(q)
  /\ options = Options(FALSE, <<>>, Undefined, "default")
  /\ pc = "rank"
  /\ index = 0
  /\ matches = <<>>
  /\ rankingInfos = <<>>
  /\ rankedValues = <<>>
  /\ result = <<>>

\* rank: getMatchRanking(item, value, options)
RankString ==
  /\ pc = "rank"
  /\ rankingInfos' = <<getHighestRanking(items[1], value, options).value>>
  /\ index' = 1
  /\ pc' = "ranked"
  /\ UNCHANGED <<items, value, options, matches, rankedValues, result>>

NextRank == RankString

SpecRank == InitRank /\ [][NextRank]_vars

(***************************************************************************)
(* matchSorter on two strings that hold the letters of the query 'ab' more *)
(* or less far apart.                                                      *)
(***************************************************************************)
\* the longest stretch of letters between the 'a' and the 'b' of a candidate
MaxBetween == 3

\* 'a', up to MaxBetween letters, 'b'; and a string without the query's letters
LooseCandidates ==
  {Str(<<"a">> \o m \o <<"b">>) : m \in SeqsUpTo({"a", "b", "c"}, MaxBetween)}
    \cup {Str(<<"c">>)}

InitCloser ==
  /\ \E x, y \in LooseCandidates : items = <<x, y>>
  /\ value = Str(<<"a", "b">>)
  /\ options = Options(FALSE, <<>>, Undefined, "default")
  /\ pc = "reduce"
  /\ index = 0
  /\ matches = <<>>
  /\ rankingInfos = <<>>
  /\ rankedValues = <<>>
  /\ result = <<>>

NextCloser == ReduceKeep \/ ReduceDrop \/ Return

SpecCloser == InitCloser /\ [][NextCloser]_vars

(***************************************************************************)
(* matchSorter on one structured item read through nested, array-crossing  *)
(* and wildcard paths.                                                     *)
(***************************************************************************)
fav == <<"f">>

\* items with arrays, arrays of objects, nulls, 0 and '' under 'f' and 't'
NestedItems ==
  { Object1(fav, Arr(<<Str(<<"a", "b">>), Str(<<"c">>)>>)),
    Object1(fav, Arr(<<Object1(tea, Arr(<<Str(<<"a", "b">>), Str(<<"c">>)>>)),
                       Object1(tea, Arr(<<Str(<<"c">>)>>))>>)),
    Object1(fav, Arr(<<Object1(tea, Str(<<"a", "b">>)), Null, Object1(tea, Null)>>)),
    Object1(fav, Object1(tea, Str(<<"a", "b">>))),
    Object1(fav, Object1(tea, Arr(<<Str(<<"a", "b">>), Str(<<"c">>)>>))),
    Object1(fav, Str(<<"a", "b">>)),
    Object1(fav, Null),
    Object1(fav, Num(0)),
    Object1(fav, Str(<<>>)),
    Object1(fav, Arr(<<Num(0), Str(<<>>), Null, Undef>>)),
    Object1(fav, Arr(<<Object1(tea, Num(0)), Object1(tea, Str(<<>>))>>)),
    Obj(<<>>),
    Null }

\* 'f', 'f.*', 'f.t', 'f.*.t', 'f.t.*', 'f.*.t.*', 'f.0', 'f.0.t', 't'
NestedPaths ==
  { <<"f">>,
    <<"f", ".", "*">>,
    <<"f", ".", "t">>,
    <<"f", ".", "*", ".", "t">>,
    <<"f", ".", "t", ".", "*">>,
    <<"f", ".", "*", ".", "t", ".", "*">>,
    <<"f", ".", "0">>,
    <<"f", ".", "0", ".", "t">>,
    <<"t">> }

NestedKeyLists ==
  {<<PathKey(path)>> : path \in NestedPaths}
    \cup {<<PathKey(path), PathKey(other)>> : path \in NestedPaths, other \in NestedPaths}
    \cup {<<FnKey(fav)>>}

NestedQueries == { <<"a", "b">>, <<"0">>, <<>> }

InitValues ==
  /\ \E item \in NestedItems : items = <<item>>
  /\ \E keys \in NestedKeyLists : options = Options(TRUE, keys, Undefined, "default")
  /\ value \in {Str(q) : q \in NestedQueries}
  /\ pc = "reduce"
  /\ index = 0
  /\ matches = <<>>
  /\ rankingInfos = <<>>
  /\ rankedValues = <<>>
  /\ result = <<>>

SpecValues == InitValues /\ [][Next]_vars

(***************************************************************************)
(* getMatchRanking of index.js on its own: one candidate string ranked     *)
(* against one query, as its getHighestRanking does when no keys are given.*)
(***************************************************************************)
CasedChars == {"a", "b", "A", "_", "-", " "}

CasedQueryChars == {"a", "b"}

InitCase ==
  /\ \E s \in SeqsUpTo(CasedChars, MaxLen) : items = <<Str(s)>>
  /\ \E q \in SeqsUpTo(CasedQueryChars, MaxQueryLen) : value = Str(q)
  /\ options = Options(FALSE, <<>>, Undefined, "default")
  /\ pc = "rank"
  /\ index = 0
  /\ matches = <<>>
  /\ rankingInfos = <<>>
  /\ rankedValues = <<>>
  /\ result = <<>>

\* {rank: getMatchRanking(item, value, options), keyIndex: -1, keyThreshold}
RankStringJs ==
  /\ pc = "rank"
  /\ rankingInfos' = <<[rank |-> getMatchRankingJs(items[1], value, options),
                        keyIndex |-> -1,
                        keyThreshold |-> options.threshold]>>
  /\ index' = 1
  /\ pc' = "ranked"
  /\ UNCHANGED <<items, value, options, matches, rankedValues, result>>

NextCase == RankStringJs

SpecCase == InitCase /\ [][NextCase]_vars

(***************************************************************************)
(* Vocabulary of the properties.                                           *)
(***************************************************************************)
\* the item at position i (from 1) of the input is in the list of matches
Included(i) == \E k \in DOMAIN matches : matches[k].index = i - 1

RECURSIVE KeyOfPosition(_, _, _, _)
\* the index in keys of the key whose values hold position pos (from 0) of
\* the candidates of item, counting from key j
KeyOfPosition(item, keys, j, pos) ==
  IF j >= Len(keys) THEN -1
  ELSE LET n == Len(getItemValues(item, keys[j + 1]).value)
       IN  IF pos < n THEN j ELSE KeyOfPosition(item, keys, j + 1, pos - n)

\* the index in options.keys of the key that produced the winning candidate
ProducingKey(info, item) ==
  IF options.keysGiven /\ info.keyIndex >= 0
    THEN KeyOfPosition(item, options.keys, 0, info.keyIndex)
    ELSE -1

\* the threshold the key at index j (from 0) of options.keys defines, if any
ThresholdOfKey(j) ==
  IF j >= 0 /\ options.keys[j + 1].type = "object"
    THEN options.keys[j + 1].threshold
    ELSE Undefined

EffectiveThreshold(i) ==
  LET own == ThresholdOfKey(ProducingKey(rankingInfos[i], items[i]))
  IN  IF own # Undefined THEN own
      ELSE IF options.threshold # Undefined THEN options.threshold
      ELSE Rat(MATCHES)

\* the ranked candidates of all processed items
Candidates ==
  UNION {{rankedValues[i][c] : c \in DOMAIN rankedValues[i]} : i \in DOMAIN rankedValues}

HasMinRanking(e) == e.attributes.minRanking # NegInfinity

HasMaxRanking(e) == e.attributes.maxRanking # Infinity

(***************************************************************************)
(* C1: an item is in the result iff its winning rank is at least its       *)
(* effective threshold: the threshold of the key that produced the winning *)
(* candidate if it defines one, else options.threshold, else MATCHES.      *)
(***************************************************************************)
C1_IncludedIffThreshold ==
  \A i \in DOMAIN rankingInfos :
    Included(i) <=> Ge(rankingInfos[i].rank, EffectiveThreshold(i))

\* a key threshold below the global one admits an item the global threshold
\* would reject, while another item is rejected
C1_Witness ==
  /\ pc = "done"
  /\ options.threshold # Undefined
  /\ \E i, j \in DOMAIN rankingInfos :
       /\ Included(i)
       /\ ThresholdOfKey(ProducingKey(rankingInfos[i], items[i])) # Undefined
       /\ Lt(rankingInfos[i].rank, options.threshold)
       /\ ~Included(j)
       /\ Gt(rankingInfos[j].rank, Rat(NO_MATCH))

(***************************************************************************)
(* C2: the result is ordered by rank descending, then keyIndex ascending,  *)
(* then the tie-break comparator.                                          *)
(***************************************************************************)
C2_ResultOrdered ==
  pc = "done" =>
    /\ result = [k \in DOMAIN matches |-> matches[k].item]
    /\ \A k, l \in DOMAIN matches :
         k < l =>
           LET a == matches[k]
               b == matches[l]
           IN  \/ Gt(a.rank, b.rank)
               \/ Eq(a.rank, b.rank) /\ a.keyIndex < b.keyIndex
               \/ /\ Eq(a.rank, b.rank)
                  /\ a.keyIndex = b.keyIndex
                  /\ baseSort(a, b, options) <= 0

\* on equal rank and keyIndex the default comparator moved a later item
\* before an earlier one
C2_Witness ==
  /\ pc = "done"
  /\ Len(matches) >= 2
  /\ matches[1].index > matches[2].index
  /\ Eq(matches[1].rank, matches[2].rank)
  /\ matches[1].keyIndex = matches[2].keyIndex
  /\ options.baseSort = "default"
  /\ baseSort(matches[1], matches[2], options) < 0

(***************************************************************************)
(* C3: of two included items of equal winning rank, the one whose winning  *)
(* candidate comes from the earlier key of options.keys is placed first.   *)
(***************************************************************************)
C3_EarlierKeyFirst ==
  pc = "done" =>
    \A k, l \in DOMAIN matches :
      LET keyK == ProducingKey(matches[k], matches[k].item)
          keyL == ProducingKey(matches[l], matches[l].item)
      IN  (Eq(matches[k].rank, matches[l].rank) /\ keyK >= 0 /\ keyK < keyL) => k < l

(***************************************************************************)
(* C4: with the empty query every item is returned, ordered by the         *)
(* tie-break comparator alone.                                             *)
(***************************************************************************)
C4_EmptyQueryReturnsAll ==
  (pc = "done" /\ value.v = <<>>) =>
    /\ \A i \in DOMAIN items : Included(i)
    /\ \A k, l \in DOMAIN matches :
         k < l => baseSort(matches[k], matches[l], options) <= 0

(***************************************************************************)
(* C5: raising options.threshold never adds an item to the result.         *)
(***************************************************************************)
TestThresholds ==
  {Rat(k) : k \in NO_MATCH..CASE_SENSITIVE_EQUAL} \cup {<<3, 2>>}

\* the positions of the items the call returns under the global threshold t
KeptUnder(t) ==
  LET withT == [options EXCEPT !.threshold = t]
  IN  {i \in DOMAIN items :
         meetsThreshold(getHighestRanking(items[i], value, withT).value, withT)}

C5_ThresholdMonotone ==
  (pc = "done" /\ options.threshold # Undefined) =>
    \A t \in TestThresholds :
      LET kept == {i \in DOMAIN items : Included(i)}
      IN  /\ Le(options.threshold, t) => KeptUnder(t) \subseteq kept
          /\ Le(t, options.threshold) => kept \subseteq KeptUnder(t)

\* a lower threshold returns strictly more items than the non-empty result
C5_Witness ==
  /\ pc = "done"
  /\ options.threshold # Undefined
  /\ matches # <<>>
  /\ \E t \in TestThresholds :
       /\ Lt(t, options.threshold)
       /\ Cardinality(KeptUnder(t)) > Len(matches)

(***************************************************************************)
(* C6: a candidate of a key with minRanking m whose raw rank is at least   *)
(* MATCHES contributes a clamped rank >= m.                                *)
(***************************************************************************)
\* as claimed: for any maxRanking
C6_MinRankingAnyMax ==
  \A e \in Candidates :
    (HasMinRanking(e) /\ Ge(e.rawRank, Rat(MATCHES)))
      => Ge(e.newRank, e.attributes.minRanking)

\* C6 as amended: when the key's maxRanking is not below its minRanking
C6_MinRankingFloor ==
  \A e \in Candidates :
    (/\ HasMinRanking(e)
     /\ Le(e.attributes.minRanking, e.attributes.maxRanking)
     /\ Ge(e.rawRank, Rat(MATCHES)))
      => Ge(e.newRank, e.attributes.minRanking)

\* a matching candidate below minRanking was raised to it
C6_Witness ==
  \E e \in Candidates :
    /\ HasMinRanking(e)
    /\ Le(e.attributes.minRanking, e.attributes.maxRanking)
    /\ Ge(e.rawRank, Rat(MATCHES))
    /\ Lt(e.rawRank, e.attributes.minRanking)
    /\ Eq(e.newRank, e.attributes.minRanking)

(***************************************************************************)
(* C7: no candidate of a key with maxRanking M contributes a clamped rank  *)
(* above M.                                                                *)
(***************************************************************************)
\* as claimed: for any minRanking
C7_MaxRankingAnyMin ==
  \A e \in Candidates :
    HasMaxRanking(e) => Le(e.newRank, e.attributes.maxRanking)

\* C7 as amended: when the key's minRanking is not above its maxRanking
C7_MaxRankingCap ==
  \A e \in Candidates :
    (HasMaxRanking(e) /\ Le(e.attributes.minRanking, e.attributes.maxRanking))
      => Le(e.newRank, e.attributes.maxRanking)

\* a candidate ranked above maxRanking was capped to it
C7_Witness ==
  \E e \in Candidates :
    /\ HasMaxRanking(e)
    /\ Le(e.attributes.minRanking, e.attributes.maxRanking)
    /\ Gt(e.rawRank, e.attributes.maxRanking)
    /\ Eq(e.newRank, e.attributes.maxRanking)

(***************************************************************************)
(* C8: minRanking never raises a candidate whose raw rank is NO_MATCH, and *)
(* with the default threshold an item whose candidates all have raw rank   *)
(* NO_MATCH is not in the result.                                          *)
(***************************************************************************)
C8_NoMatchNotPromoted ==
  /\ \A e \in Candidates :
       Eq(e.rawRank, Rat(NO_MATCH)) => Le(e.newRank, Rat(NO_MATCH))
  /\ \A i \in DOMAIN rankedValues :
       (/\ options.keysGiven
        /\ options.threshold = Undefined
        /\ \A c \in DOMAIN rankedValues[i] :
             Eq(rankedValues[i][c].rawRank, Rat(NO_MATCH)))
         => ~Included(i)

\* an item whose only candidates do not match, one of them under a key with
\* a minRanking, was left out under the default threshold
C8_Witness ==
  /\ pc = "done"
  /\ options.threshold = Undefined
  /\ \E i \in DOMAIN rankedValues :
       /\ \E c \in DOMAIN rankedValues[i] : HasMinRanking(rankedValues[i][c])
       /\ \A c \in DOMAIN rankedValues[i] :
            Eq(rankedValues[i][c].rawRank, Rat(NO_MATCH))
       /\ ~Included(i)

(***************************************************************************)
(* C9: the winning rank recorded for an item lies within                   *)
(* [NO_MATCH, CASE_SENSITIVE_EQUAL].                                       *)
(***************************************************************************)
RankInScale(r) == Ge(r, Rat(NO_MATCH)) /\ Le(r, Rat(CASE_SENSITIVE_EQUAL))

\* as claimed: for every key list
C9_RankInScaleAnyKeys ==
  \A i \in DOMAIN rankingInfos : RankInScale(rankingInfos[i].rank)

MinRankingsInScale ==
  options.keysGiven =>
    \A j \in DOMAIN options.keys :
      (options.keys[j].type = "object" /\ options.keys[j].minRanking # Undefined)
        => Le(options.keys[j].minRanking, Rat(CASE_SENSITIVE_EQUAL))

\* C9 as amended: when no key has a minRanking above CASE_SENSITIVE_EQUAL
C9_RankInScale ==
  MinRankingsInScale =>
    \A i \in DOMAIN rankingInfos : RankInScale(rankingInfos[i].rank)

\* the winning rank of an item is the minRanking its candidate was raised to
C9_Witness ==
  /\ MinRankingsInScale
  /\ \E i \in DOMAIN rankingInfos :
       /\ rankingInfos[i].keyIndex >= 0
       /\ LET e == rankedValues[i][rankingInfos[i].keyIndex + 1]
          IN  /\ HasMinRanking(e)
              /\ Lt(e.rawRank, e.attributes.minRanking)
              /\ Eq(rankingInfos[i].rank, e.attributes.minRanking)

(***************************************************************************)
(* C10: a query longer than every candidate string yields an empty result. *)
(***************************************************************************)
\* the strings getHighestRanking ranks for the item at position i
CandidateValues(i) ==
  IF options.keysGiven
    THEN {rankedValues[i][c].itemValue : c \in DOMAIN rankedValues[i]}
    ELSE {items[i]}

QueryLongerThanAll ==
  \A i \in DOMAIN items :
    \A x \in CandidateValues(i) :
      Len(prepareValueForComparison(value, options))
        > Len(prepareValueForComparison(x, options))

\* as claimed: for all options
C10_TooLongAnyOptions ==
  (pc = "done" /\ QueryLongerThanAll) => result = <<>>

\* C10 as amended: when the global threshold is above NO_MATCH
C10_TooLongEmpty ==
  (/\ pc = "done"
   /\ QueryLongerThanAll
   /\ (options.threshold = Undefined \/ Gt(options.threshold, Rat(NO_MATCH))))
    => result = <<>>

\* items with candidates, all shorter than the query, and an empty result
C10_Witness ==
  /\ pc = "done"
  /\ QueryLongerThanAll
  /\ \E i \in DOMAIN items : CandidateValues(i) # {}
  /\ options.threshold = Undefined
  /\ result = <<>>

(***************************************************************************)
(* C11: with options.threshold = NO_MATCH and no threshold on any key, a   *)
(* call that returns returns every input item exactly once: the result is  *)
(* a permutation of the input.                                             *)
(***************************************************************************)
\* no key of options.keys defines a threshold of its own
NoKeyThreshold ==
  \A j \in DOMAIN options.keys :
    options.keys[j].type = "object" => options.keys[j].threshold = Undefined

C11_NoMatchThresholdReturnsAll ==
  (pc = "done" /\ options.threshold = Rat(NO_MATCH) /\ NoKeyThreshold) =>
    /\ Len(result) = Len(items)
    /\ \A i \in DOMAIN items :
         Cardinality({k \in DOMAIN matches : matches[k].index = i - 1}) = 1
    /\ \A k \in DOMAIN result : result[k] = items[matches[k].index + 1]

\* two items were returned in another order than the input's, one of them
\* with a winning rank of NO_MATCH
C11_Witness ==
  /\ pc = "done"
  /\ options.threshold = Rat(NO_MATCH)
  /\ NoKeyThreshold
  /\ Len(items) = 2
  /\ Len(result) = 2
  /\ result # items
  /\ \E k \in DOMAIN matches : Eq(matches[k].rank, Rat(NO_MATCH))

(***************************************************************************)
(* C12: two included items of equal rank and equal keyIndex that the       *)
(* tie-break comparator does not order keep the relative order they have   *)
(* in the input.                                                           *)
(***************************************************************************)
C12_TiesKeepInputOrder ==
  pc = "done" =>
    \A k, l \in DOMAIN matches :
      (/\ Eq(matches[k].rank, matches[l].rank)
       /\ matches[k].keyIndex = matches[l].keyIndex
       /\ baseSort(matches[k], matches[l], options) = 0
       /\ matches[k].index < matches[l].index)
        => k < l

\* two different items tie on rank, keyIndex and winning string
C12_Witness ==
  /\ pc = "done"
  /\ Len(matches) = 2
  /\ matches[1].item # matches[2].item
  /\ Eq(matches[1].rank, matches[2].rank)
  /\ matches[1].keyIndex = matches[2].keyIndex
  /\ matches[1].keyIndex >= 0
  /\ baseSort(matches[1], matches[2], options) = 0
  /\ matches[1].index < matches[2].index

(***************************************************************************)
(* C13: thresholds decide key by key.  A key matches an item when one of   *)
(* its candidates has a clamped rank at or above the key's effective       *)
(* threshold (its own, else options.threshold, else MATCHES), and an item  *)
(* is in the result iff at least one of its keys matches.  Stated for the  *)
(* calls whose global threshold is above NO_MATCH, where an item without a *)
(* match is never returned.                                                *)
(***************************************************************************)
\* the candidate meets the effective threshold of the key it comes from
KeyMatches(e) ==
  LET own == e.attributes.threshold
  IN  Ge(e.newRank, IF own # Undefined THEN own
                    ELSE IF options.threshold # Undefined THEN options.threshold
                    ELSE Rat(MATCHES))

C13_IncludedIffSomeKeyMatches ==
  (/\ options.keysGiven
   /\ (options.threshold = Undefined \/ Gt(options.threshold, Rat(NO_MATCH)))) =>
    \A i \in DOMAIN rankedValues :
      Included(i) <=> \E c \in DOMAIN rankedValues[i] : KeyMatches(rankedValues[i][c])

(***************************************************************************)
(* C14: a call leaves its inputs as they were: items, the query and the    *)
(* options never change, and the result is a list of its own whose         *)
(* elements are the input's elements, each input position used at most     *)
(* once.                                                                   *)
(***************************************************************************)
\* every element of the result is the input's element at a position of its own
ResultFromInput ==
  /\ Len(result) = Len(matches)
  /\ \A k \in DOMAIN result :
       /\ matches[k].index + 1 \in DOMAIN items
       /\ result[k] = items[matches[k].index + 1]
  /\ \A k, l \in DOMAIN matches : matches[k].index = matches[l].index => k = l

C14_InputsUnchanged ==
  /\ [](pc = "done" => ResultFromInput)
  /\ [][items' = items /\ value' = value /\ options' = options]_vars

\* of two different items the call returned the second alone
C14_Witness ==
  /\ pc = "done"
  /\ Len(items) = 2
  /\ items[1] # items[2]
  /\ result = <<items[2]>>

(***************************************************************************)
(* C15: a call whose keys hold a specification of an unsupported shape (a  *)
(* number, null, a descriptor without a key) never returns a result,       *)
(* whatever the items (the empty list included) and the query.             *)
(***************************************************************************)
\* the key specification is neither a path, a callback nor a descriptor of one
UnsupportedKey(k) ==
  \/ k.type \in {"number", "null", "undefined"}
  \/ k.type = "object" /\ k.key.type \notin {"string", "function"}

HasUnsupportedKey ==
  options.keysGiven /\ \E j \in DOMAIN options.keys : UnsupportedKey(options.keys[j])

C15_UnsupportedKeyFails == HasUnsupportedKey => pc # "done"

(***************************************************************************)
(* C16: getMatchRanking returns the rank of the first tier, in the fixed   *)
(* order of precedence, whose condition holds on the prepared strings; a   *)
(* lower tier is never returned when the condition of a higher one holds.  *)
(***************************************************************************)
\* the prepared candidate and the prepared query of the ranked string
PreparedCandidate == prepareValueForComparison(items[1], options)

PreparedQuery == prepareValueForComparison(value, options)

\* the tiers in their order of precedence, each with its condition and rank
Tiers ==
  LET t == PreparedCandidate
      q == PreparedQuery
      lt == toLowerCase(t)
      lq == toLowerCase(q)
  IN  << [name |-> "too long", holds |-> Len(q) > Len(t), rank |-> Rat(NO_MATCH)],
         [name |-> "case sensitive equal", holds |-> t = q,
          rank |-> Rat(CASE_SENSITIVE_EQUAL)],
         [name |-> "equal", holds |-> lt = lq, rank |-> Rat(EQUAL)],
         [name |-> "starts with", holds |-> startsWith(lt, lq),
          rank |-> Rat(STARTS_WITH)],
         [name |-> "word starts with", holds |-> includes(lt, <<" ">> \o lq),
          rank |-> Rat(WORD_STARTS_WITH)],
         [name |-> "contains", holds |-> includes(lt, lq), rank |-> Rat(CONTAINS)],
         [name |-> "one character", holds |-> Len(lq) = 1, rank |-> Rat(NO_MATCH)],
         [name |-> "acronym", holds |-> includes(getAcronym(lt), lq),
          rank |-> Rat(ACRONYM)],
         [name |-> "closeness", holds |-> TRUE,
          rank |-> getClosenessRanking(lt, lq)] >>

\* the first tier whose condition holds
FirstTier ==
  LET tiers == Tiers
  IN  tiers[CHOOSE n \in DOMAIN tiers :
              tiers[n].holds /\ \A m \in 1..(n - 1) : ~tiers[m].holds]

C16_FirstTierRank ==
  pc = "ranked" => Eq(rankingInfos[1].rank, FirstTier.rank)

\* a candidate that contains the query at the start of a later word is
\* ranked WORD_STARTS_WITH, above CONTAINS
C16_Witness ==
  /\ pc = "ranked"
  /\ FirstTier.name = "word starts with"
  /\ Tiers[6].holds
  /\ rankingInfos[1].rank = Rat(WORD_STARTS_WITH)

(***************************************************************************)
(* C17: whenever the closeness step of getMatchRanking produces a match,   *)
(* its value is strictly above MATCHES and strictly below ACRONYM.         *)
(***************************************************************************)
C17_ClosenessBetweenTiers ==
  (/\ pc = "ranked"
   /\ ~Eq(rankingInfos[1].rank, Rat(NO_MATCH))
   /\ FirstTier.name = "closeness")
    => /\ Gt(rankingInfos[1].rank, Rat(MATCHES))
       /\ Lt(rankingInfos[1].rank, Rat(ACRONYM))

\* the tightest loose match: a query of two characters one place apart
C17_Witness ==
  /\ pc = "ranked"
  /\ FirstTier.name = "closeness"
  /\ Eq(rankingInfos[1].rank, <<3, 2>>)

(***************************************************************************)
(* C18: closer loose matches rank higher.  Of two candidates that both     *)
(* match the query in the MATCHES tier only, the one whose shortest        *)
(* stretch holding the query's characters in order is the shorter has the  *)
(* strictly higher rank, and its item comes first in the result.           *)
(***************************************************************************)
RECURSIVE IsSubsequence(_, _)
\* the characters of q occur in s in order
IsSubsequence(q, s) ==
  IF q = <<>> THEN TRUE
  ELSE IF s = <<>> THEN FALSE
  ELSE IF Head(q) = Head(s) THEN IsSubsequence(Tail(q), Tail(s))
  ELSE IsSubsequence(q, Tail(s))

\* the length of the shortest stretch of s that holds the characters of q
\* in order, or 0 when there is none
ShortestStretch(s, q) ==
  LET lengths == {n \in 1..Len(s) :
                    \E from \in 1..(Len(s) - n + 1) :
                      IsSubsequence(q, SubSeq(s, from, from + n - 1))}
  IN  IF lengths = {} THEN 0 ELSE CHOOSE n \in lengths : \A m \in lengths : n <= m

\* the rank is one of the MATCHES tier
InMatchesTier(r) == Ge(r, Rat(MATCHES)) /\ Lt(r, Rat(ACRONYM))

\* the position in the result of the item at position i (from 1) of the input
PositionInResult(i) == CHOOSE k \in DOMAIN matches : matches[k].index = i - 1

C18_ShorterStretchRanksHigher ==
  pc = "done" =>
    \A i, j \in DOMAIN items :
      (/\ InMatchesTier(rankingInfos[i].rank)
       /\ InMatchesTier(rankingInfos[j].rank)
       /\ ShortestStretch(toLowerCase(prepareValueForComparison(items[i], options)),
                          toLowerCase(PreparedQuery))
            < ShortestStretch(toLowerCase(prepareValueForComparison(items[j], options)),
                              toLowerCase(PreparedQuery)))
        => /\ Gt(rankingInfos[i].rank, rankingInfos[j].rank)
           /\ PositionInResult(i) < PositionInResult(j)

(***************************************************************************)
(* C19: getHighestRanking selects the earliest candidate, in extraction    *)
(* order, whose clamped rank is the maximum over all candidates: rank,     *)
(* rankedValue, keyIndex (the candidate's place in the extraction order)   *)
(* and keyThreshold are those of that candidate.                           *)
(***************************************************************************)
\* the place (from 1) of the earliest candidate of item i with the maximal
\* clamped rank
EarliestMaximal(i) ==
  CHOOSE c \in DOMAIN rankedValues[i] :
    /\ \A d \in DOMAIN rankedValues[i] :
         Le(rankedValues[i][d].newRank, rankedValues[i][c].newRank)
    /\ \A d \in 1..(c - 1) :
         Lt(rankedValues[i][d].newRank, rankedValues[i][c].newRank)

SelectsEarliestMaximal(i) ==
  LET c == EarliestMaximal(i)
      e == rankedValues[i][c]
  IN  /\ Eq(rankingInfos[i].rank, e.newRank)
      /\ rankingInfos[i].rankedValue = e.itemValue
      /\ rankingInfos[i].keyIndex = c - 1
      /\ rankingInfos[i].keyThreshold = e.attributes.threshold

\* as claimed: for every item that has candidates
C19_EarliestMaximalAnyRank ==
  options.keysGiven =>
    \A i \in DOMAIN rankingInfos :
      rankedValues[i] # <<>> => SelectsEarliestMaximal(i)

\* C19 as amended: when some candidate has a clamped rank above NO_MATCH
C19_EarliestMaximal ==
  options.keysGiven =>
    \A i \in DOMAIN rankingInfos :
      (\E c \in DOMAIN rankedValues[i] :
         Gt(rankedValues[i][c].newRank, Rat(NO_MATCH)))
        => SelectsEarliestMaximal(i)

\* the first two candidates of an item tie above NO_MATCH at the maximal
\* rank and the first of them is recorded
C19_Witness ==
  \E i \in DOMAIN rankingInfos :
    /\ Len(rankedValues[i]) >= 2
    /\ Gt(rankedValues[i][1].newRank, Rat(NO_MATCH))
    /\ Eq(rankedValues[i][1].newRank, rankedValues[i][2].newRank)
    /\ rankedValues[i][1].itemValue # rankedValues[i][2].itemValue
    /\ rankingInfos[i].keyIndex = 0
    /\ rankingInfos[i].rankedValue = rankedValues[i][1].itemValue

(***************************************************************************)
(* C20: the keyIndex recorded for an item is the index in options.keys of  *)
(* the key that produced the winning candidate, and -1 when no keys were   *)
(* given.                                                                  *)
(***************************************************************************)
C20_KeyIndexIsKeyOfWinner ==
  \A i \in DOMAIN rankingInfos :
    IF options.keysGiven
      THEN rankingInfos[i].keyIndex >= 0 =>
             rankingInfos[i].keyIndex = ProducingKey(rankingInfos[i], items[i])
      ELSE rankingInfos[i].keyIndex = -1

(***************************************************************************)
(* C21: the candidates read through a wildcard or array-crossing path are  *)
(* scalar leaf values: no candidate is itself a list, also when arrays are *)
(* nested two levels deep.                                                 *)
(***************************************************************************)
C21_CandidatesAreScalars ==
  \A e \in Candidates : e.itemValue.t # "array"

(***************************************************************************)
(* C22: for a path-string key a missing or null value at any segment (a    *)
(* null item, a null array element, a null leaf) gives no candidate for    *)
(* that branch and never raises an error; the item still matches through   *)
(* its other branches and keys.                                            *)
(***************************************************************************)
RECURSIVE AllBranchesMissing(_, _)
\* every branch the path segs follows from x ends at a missing or null
\* value; a wildcard that follows the segment read from the elements of an
\* array stands for those elements and is passed over
AllBranchesMissing(x, segs) ==
  IF IsNullish(x) THEN TRUE
  ELSE IF segs = <<>> THEN FALSE
  ELSE IF hasOwnProperty(x, Head(segs))
    THEN AllBranchesMissing(getProperty(x, Head(segs)), Tail(segs))
  ELSE IF x.t = "array"
    THEN IF Head(segs) = <<"*">> THEN x.v # <<>> /\ AllBranchesMissing(x, Tail(segs))
         ELSE LET inElement ==
                    IF Len(segs) >= 2 /\ segs[2] = <<"*">>
                      THEN <<segs[1]>> \o SubSeq(segs, 3, Len(segs))
                      ELSE segs
              IN  \A k \in DOMAIN x.v :
                    x.v[k].t # "array" /\ AllBranchesMissing(x.v[k], inElement)
  ELSE TRUE

\* the keys of the call are path strings
OnlyPathKeys == \A j \in DOMAIN options.keys : options.keys[j].type = "string"

\* what the key at position j (from 1) alone yields for the item
ValuesOfKey(j) == getItemValues(items[1], options.keys[j])

C22_MissingOrNullYieldsNothing ==
  (options.keysGiven /\ OnlyPathKeys) =>
    /\ pc # "threw"
    /\ index = 1 =>
         /\ \A c \in DOMAIN rankedValues[1] : ~IsNullish(rankedValues[1][c].itemValue)
         /\ \A j \in DOMAIN options.keys :
              AllBranchesMissing(items[1], split(options.keys[j].path, "."))
                => ValuesOfKey(j).value = <<>>
         /\ [c \in DOMAIN rankedValues[1] |-> rankedValues[1][c].itemValue]
              = Concat([j \in DOMAIN options.keys |-> ValuesOfKey(j).value])

(***************************************************************************)
(* C23: the number 0 and the empty string found at a key path, directly or *)
(* inside an array, are candidates and are ranked like any other value;    *)
(* nothing but null and undefined is dropped.                              *)
(***************************************************************************)
ZeroOrEmpty(x) == x = Num(0) \/ x = Str(<<>>)

RECURSIVE Leaves(_, _)
\* the values that are neither null nor undefined at the end of the branches
\* the path segs follows from x
Leaves(x, segs) ==
  IF IsNullish(x) THEN {}
  ELSE IF segs = <<>>
    THEN IF x.t = "array" THEN {x.v[k] : k \in {m \in DOMAIN x.v : ~IsNullish(x.v[m])}}
         ELSE {x}
  ELSE IF hasOwnProperty(x, Head(segs))
    THEN Leaves(getProperty(x, Head(segs)), Tail(segs))
  ELSE IF x.t = "array"
    THEN IF Head(segs) = <<"*">> THEN Leaves(x, Tail(segs))
         ELSE LET inElement ==
                    IF Len(segs) >= 2 /\ segs[2] = <<"*">>
                      THEN <<segs[1]>> \o SubSeq(segs, 3, Len(segs))
                      ELSE segs
              IN  UNION {Leaves(x.v[k], inElement) : k \in DOMAIN x.v}
  ELSE {}

C24_ClosenessBelowAcronymJs ==
  (/\ pc = "ranked"
   /\ matchRankingStepJs(items[1], value, options).step = "closeness"
   /\ ~Eq(rankingInfos[1].rank, Rat(rankingsJs.NO_MATCH)))
    => /\ Gt(rankingInfos[1].rank, Rat(rankingsJs.MATCHES))
       /\ Lt(rankingInfos[1].rank, Rat(rankingsJs.ACRONYM))

(***************************************************************************)
(* C25: in index.js, a candidate with a defined case one of whose case     *)
(* parts starts with the query, case-insensitively, is ranked at least     *)
(* STRING_CASE, wherever else the query occurs in it.                      *)
(***************************************************************************)
\* some case part of the prepared candidate starts with the prepared query
SomePartStartsWithQuery ==
  LET parts == splitByCase(PreparedCandidate, getCaseRanking(PreparedCandidate))
  IN  \E k \in DOMAIN parts :
        startsWith(toLowerCase(parts[k]), toLowerCase(PreparedQuery))

C25_CasePartAtLeastStringCase ==
  (/\ pc = "ranked"
   /\ Gt(getCaseRanking(PreparedCandidate), Rat(0))
   /\ SomePartStartsWithQuery)
    => Ge(rankingInfos[1].rank, Rat(rankingsJs.STRING_CASE))

(***************************************************************************)
(* C26: in index.ts the rank of a candidate is above NO_MATCH exactly when *)
(* the lower-cased query occurs in the lower-cased candidate as an         *)
(* in-order subsequence: at some increasing positions of the candidate     *)
(* stand the characters of the query.                                      *)
(***************************************************************************)
\* the characters of q stand in s at some strictly increasing positions
OccursInOrder(q, s) ==
  \E pos \in [DOMAIN q -> DOMAIN s] :
    /\ \A i \in DOMAIN q : s[pos[i]] = q[i]
    /\ \A i, k \in DOMAIN q : i < k => pos[i] < pos[k]

C26_MatchIffSubsequence ==
  pc = "ranked" =>
    (Gt(rankingInfos[1].rank, Rat(NO_MATCH))
       <=> OccursInOrder(toLowerCase(PreparedQuery), toLowerCase(PreparedCandidate)))

\* a subsequence that only the closeness scan finds, the first occurrence of
\* the query's first character not being the first character of the candidate
C26_Witness ==
  /\ pc = "ranked"
  /\ FirstTier.name = "closeness"
  /\ Len(PreparedQuery) = 2
  /\ toLowerCase(PreparedCandidate)[1] # toLowerCase(PreparedQuery)[1]
  /\ Gt(rankingInfos[1].rank, Rat(NO_MATCH))

(***************************************************************************)
(* C27: the return of NO_MATCH for a one-character query that the          *)
(* candidate does not contain changes no result: the rank is that of the   *)
(* first tier, in the order of precedence without that step, whose         *)
(* condition holds.                                                        *)
(***************************************************************************)
\* the first tier other than "one character" whose condition holds
FirstTierWithoutOneCharacter ==
  LET tiers == Tiers
      kept == {n \in DOMAIN tiers : tiers[n].name # "one character"}
  IN  tiers[CHOOSE n \in kept :
              tiers[n].holds /\ \A m \in kept : m < n => ~tiers[m].holds]

C27_OneCharacterStepChangesNothing ==
  pc = "ranked" => Eq(rankingInfos[1].rank, FirstTierWithoutOneCharacter.rank)

\* a one-character query that the candidate does not contain
C27_Witness ==
  /\ pc = "ranked"
  /\ FirstTier.name = "one character"
  /\ FirstTierWithoutOneCharacter.name = "closeness"
  /\ PreparedCandidate # <<>>
  /\ rankingInfos[1].rank = Rat(NO_MATCH)

(***************************************************************************)
(* C30: in index.ts, whenever the closeness step gives a value other than  *)
(* NO_MATCH, every character of the query was matched, so the value is     *)
(* MATCHES + 1/spread, where spread is the distance from the cursor after  *)
(* the first matched character to the cursor after the last one, and       *)
(* spread >= 1.                                                            *)
(***************************************************************************)
RECURSIVE Cursors(_, _, _)
\* the cursors of the scan of s for the characters of q from the cursor
\* from: each the position after the first occurrence, at or after the
\* previous cursor, of the next character
Cursors(s, q, from) ==
  IF q = <<>> THEN <<>>
  ELSE LET at == {p \in (from + 1)..Len(s) : s[p] = Head(q)}
       IN  IF at = {} THEN <<>>
           ELSE LET p == CHOOSE x \in at : \A y \in at : x <= y
                IN  <<p>> \o Cursors(s, Tail(q), p)

C30_ClosenessIsOneOverSpread ==
  (/\ pc = "ranked"
   /\ FirstTier.name = "closeness"
   /\ ~Eq(rankingInfos[1].rank, Rat(NO_MATCH)))
    => LET q == toLowerCase(PreparedQuery)
           cursors == Cursors(toLowerCase(PreparedCandidate), q, 0)
           spread == cursors[Len(cursors)] - cursors[1]
       IN  /\ Len(cursors) = Len(q)
           /\ spread >= 1
           /\ Eq(rankingInfos[1].rank, <<MATCHES * spread + 1, spread>>)

\* a loose match whose characters are three places apart
C30_Witness ==
  /\ pc = "ranked"
  /\ FirstTier.name = "closeness"
  /\ Eq(rankingInfos[1].rank, <<4, 3>>)

(***************************************************************************)
(* C28: on an array an explicit '*' segment is equivalent to no segment.   *)
(* For a path key with a '*' segment that is reached with an array, the    *)
(* key yields for the item the candidates that the path without that       *)
(* segment yields.                                                         *)
(***************************************************************************)
RECURSIVE JoinSegments(_)
\* the path whose segments are segs
JoinSegments(segs) ==
  IF Len(segs) = 1 THEN segs[1]
  ELSE segs[1] \o <<".">> \o JoinSegments(Tail(segs))

\* the path without its segment at position k
WithoutSegment(path, k) ==
  LET segs == split(path, ".")
  IN  JoinSegments(SubSeq(segs, 1, k - 1) \o SubSeq(segs, k + 1, Len(segs)))

\* the segment at position k of the path is '*' and is reached, for the
\* processed item, with an array
WildcardOnArray(path, k) ==
  LET segs == split(path, ".")
  IN  /\ k \in 2..Len(segs)
      /\ segs[k] = <<"*">>
      /\ reduceSegments(SubSeq(segs, 1, k - 1), items[1]).t = "array"

C28_WildcardOnArrayIsNoSegment ==
  (options.keysGiven /\ OnlyPathKeys /\ index = 1) =>
    \A j \in DOMAIN options.keys :
      \A k \in DOMAIN split(options.keys[j].path, ".") :
        WildcardOnArray(options.keys[j].path, k) =>
          LET without == getItemValues(items[1],
                           PathKey(WithoutSegment(options.keys[j].path, k)))
          IN  /\ ValuesOfKey(j) = without
              /\ Len(options.keys) = 1 =>
                   [c \in DOMAIN rankedValues[1] |-> rankedValues[1][c].itemValue]
                     = without.value

\* an array of objects read through 'f.*.t', and candidates found
C28_Witness ==
  /\ options.keysGiven
  /\ index = 1
  /\ options.keys = <<PathKey(<<"f", ".", "*", ".", "t">>)>>
  /\ WildcardOnArray(options.keys[1].path, 2)
  /\ rankedValues[1] # <<>>

(***************************************************************************)
(* C29: when keys are given, the keyIndex recorded for an item is -1       *)
(* exactly when its winning rank is NO_MATCH; its keyThreshold is then     *)
(* options.threshold, and the item is included only when the global        *)
(* threshold is given and is at most NO_MATCH.                             *)
(***************************************************************************)
C29_NoWinnerKeepsGlobalThreshold ==
  options.keysGiven =>
    \A i \in DOMAIN rankingInfos :
      /\ rankingInfos[i].keyIndex = -1 <=> Eq(rankingInfos[i].rank, Rat(NO_MATCH))
      /\ rankingInfos[i].keyIndex = -1 =>
           /\ rankingInfos[i].keyThreshold = options.threshold
           /\ Included(i) =>
                /\ options.threshold # Undefined
                /\ Le(options.threshold, Rat(NO_MATCH))

\* an item with candidates none of which matches, included under the
\* global threshold NO_MATCH
C29_Witness ==
  /\ options.keysGiven
  /\ \E i \in DOMAIN rankingInfos :
       /\ rankedValues[i] # <<>>
       /\ rankingInfos[i].keyIndex = -1
       /\ options.threshold = Rat(NO_MATCH)
       /\ Included(i)

=============================================================================
